---- MODULE Spec2Model ----
(***************************************************************************)
(* Model of slides.py: the Slideshow controller (random non-repeating      *)
(* selection, decode/scale, render, one-shot timer re-arming) and the      *)
(* pure function calculate_scaled_size, computed in IEEE-754 binary64 as   *)
(* Python's float does.                                                    *)
(*                                                                         *)
(* Python list index i (0-based) is position i+1 of a TLA+ sequence.       *)
(* A file name is modelled by a natural number.                            *)
(***************************************************************************)
EXTENDS Integers, Sequences, FiniteSets, TLC

\* ---- bounds ------------------------------------------------------------
MaxN == 3            \* largest image set (len(self.images))
MaxSelections == 7   \* cap on get_next_image calls when looping forever
MaxDim == 20         \* largest original width/height of an image
MaxTarget == 2       \* small target boxes tried besides the window size

\* ---- program constants -------------------------------------------------
SIZE == 500          \* slides.py:17
NoIndex == -1        \* slides.py:53  current_image_index before any choice

VARIABLES
    images,               \* self.images: sequence of file names
    undecodable,          \* file names on which load_image raises
    bLoop,                \* self.bLoop
    shown_indices,        \* self.shown_indices
    current_image_index,  \* self.current_image_index
    current_image,        \* self.current_image: name of the handle, 0 = None/unset
    canvas,               \* name of the image drawn on the canvas, 0 = empty
    timers,               \* number of pending window.after callbacks
    pc,                   \* "init" (line 56 not yet run), "mainloop", "exited"
    exit_status,          \* process exit status, -1 while running
    stdout,               \* lines printed
    selections,           \* history: number of get_next_image calls
    renders,              \* history: renders[k] = show_image calls for name k
    branch,               \* history: path of the last get_next_image call
    original_size,        \* calculate_scaled_size argument
    target_size,          \* calculate_scaled_size argument
    scaled_size           \* calculate_scaled_size result, <<>> before the call

slideVars == <<images, undecodable, bLoop, shown_indices, current_image_index,
               current_image, canvas, timers, pc, exit_status, stdout,
               selections, renders, branch>>
scaleVars == <<original_size, target_size, scaled_size>>
vars == <<images, undecodable, bLoop, shown_indices, current_image_index,
          current_image, canvas, timers, pc, exit_status, stdout,
          selections, renders, branch,
          original_size, target_size, scaled_size>>

Line(text, name) == [text |-> text, name |-> name]

\* ---- get_next_image ----------------------------------------------------

\* Off by one: the set counts as exhausted one image early.
all_shown_early(imgs, shown) == Len(imgs) <= Cardinality(shown) + 1

\* Strict comparison: the set never counts as exhausted.
all_shown_never(imgs, shown) == Len(imgs) < Cardinality(shown)

\* line 75: len(self.images) == len(self.shown_indices)
all_shown(imgs, shown) == Len(imgs) = Cardinality(shown)

\* The reset forgotten: the shown-set is kept.
reset_shown_kept == shown_indices

\* line 81: self.shown_indices = set()
reset_shown == {}

\* The filter forgotten: every index is available.
available_indices_all(imgs, shown) == 0 .. Len(imgs) - 1

\* One-based range: range(1, len(self.images) + 1).
available_indices_from1(imgs, shown) == {i \in 1 .. Len(imgs) : i \notin shown}

\* line 84: [i for i in range(len(self.images)) if i not in self.shown_indices]
available_indices(imgs, shown) == {i \in 0 .. Len(imgs) - 1 : i \notin shown}

\* line 90: self.shown_indices.add(self.current_image_index)
add_shown(shown, i) == shown \cup {i}

\* line 92: self.images[i] is defined for -len <= i < len, else IndexError
index_ok(imgs, i) == i >= 0 - Len(imgs) /\ i < Len(imgs)
image_at(imgs, i) == IF i >= 0 THEN imgs[i + 1] ELSE imgs[Len(imgs) + i + 1]

\* ---- load_image / show_image / after -----------------------------------

\* lines 95-108: load_image returns a handle unless decode or scale raises
load_image_ok(name) == name \notin undecodable

\* lines 111-115: the canvas is cleared and the new image drawn
show_image(name) == name

\* The callback registered twice.
after_twice(pending) == pending + 2

\* line 130: self.window.after(PAUSE, self.show_next_image)
after(pending) == pending + 1

\* ---- process outcomes --------------------------------------------------

\* sys.exit(0), lines 78 and 128: SystemExit leaves __init__ or the mainloop
sys_exit(status) ==
    /\ pc' = "exited"
    /\ exit_status' = status

\* lines 76-78: print("DONE!"); sys.exit(0)
Done(pending) ==
    /\ stdout' = Append(stdout, Line("DONE!", 0))
    /\ sys_exit(0)
    /\ branch' = "done"
    /\ timers' = pending
    /\ UNCHANGED <<shown_indices, current_image_index, current_image,
                   canvas, renders>>

\* An exception that is not caught in show_next_image: raised from __init__
\* (line 56) it ends the process with a traceback and status 1; raised in a
\* Tk callback it is reported and the mainloop goes on with nothing re-armed.
Uncaught(pending) ==
    /\ IF pc = "init"
       THEN pc' = "exited" /\ exit_status' = 1
       ELSE pc' = "mainloop" /\ exit_status' = exit_status
    /\ timers' = pending
    /\ UNCHANGED <<current_image, canvas, renders, stdout>>

\* The except branch without its sys.exit(0): control falls through to
\* line 130 and the timer is armed again.
LoadFailed_no_exit(name, pending) ==
    /\ current_image' = 0
    /\ stdout' = stdout \o <<Line("Error loading image", 0),
                             Line("name =", name)>>
    /\ pc' = "mainloop"
    /\ timers' = pending + 1
    /\ UNCHANGED <<canvas, renders, exit_status>>

\* lines 124-128: the except branch
LoadFailed(name, pending) ==
    /\ current_image' = 0
    /\ stdout' = stdout \o <<Line("Error loading image", 0),
                             Line("name =", name)>>
    /\ sys_exit(0)
    /\ timers' = pending
    /\ UNCHANGED <<canvas, renders>>

\* lines 121-130 for the name returned by get_next_image
LoadAndShow(name, pending) ==
    IF load_image_ok(name)
    THEN /\ current_image' = name
         /\ canvas' = show_image(name)
         /\ renders' = [renders EXCEPT ![name] = @ + 1]
         /\ timers' = after(pending)
         /\ pc' = "mainloop"
         /\ UNCHANGED <<exit_status, stdout>>
    ELSE LoadFailed(name, pending)

\* lines 118-130, get_next_image (72-92) inlined; pending is the number of
\* timers still armed when the body starts
show_next_image(pending) ==
    LET exhausted == all_shown(images, shown_indices) IN
    /\ selections' = selections + 1
    /\ UNCHANGED <<images, undecodable, bLoop>>
    /\ IF exhausted /\ ~bLoop
       THEN Done(pending)
       ELSE LET base == IF exhausted THEN reset_shown ELSE shown_indices
                avail == available_indices(images, base)
            IN /\ branch' = IF exhausted THEN "reset" ELSE "pick"
               /\ IF avail = {}
                  THEN \* random.choice([]) raises IndexError
                       /\ shown_indices' = base
                       /\ current_image_index' = current_image_index
                       /\ Uncaught(pending)
                  ELSE \E i \in avail :
                       /\ current_image_index' = i
                       /\ shown_indices' = add_shown(base, i)
                       /\ IF index_ok(images, i)
                          THEN LoadAndShow(image_at(images, i), pending)
                          ELSE Uncaught(pending)

\* ---- calculate_scaled_size in binary64 ---------------------------------
\* A positive Python float is [s2, s1, s0, e]: the 53-bit significand is
\* s2 * 2^36 + s1 * 2^18 + s0, held in three limbs of 18 bits with
\* 2^16 <= s2 < 2^17, and the value is significand * 2^e.

Precision == 53      \* significand bits of a Python float (IEEE-754 binary64)
LimbBits == 18       \* bits per limb of the significand

Pow2Table ==
    <<1, 2, 4, 8, 16, 32, 64, 128, 256, 512, 1024, 2048, 4096, 8192, 16384,
      32768, 65536, 131072, 262144, 524288, 1048576, 2097152, 4194304,
      8388608, 16777216, 33554432, 67108864, 134217728, 268435456,
      536870912, 1073741824>>
Pow2(k) == Pow2Table[k + 1]

Limb == Pow2(LimbBits)
TopBits == Precision - 2 * LimbBits      \* bits of the top limb s2

\* number of bits of n >= 1
BitLen(n) == CHOOSE k \in 1 .. 31 : Pow2(k - 1) <= n /\ (k = 31 \/ n < Pow2(k))

\* the j with b * 2^j <= a < b * 2^(j+1)
RECURSIVE ExpOf(_, _)
ExpOf(a, b) ==
    IF a >= 2 * b THEN ExpOf(a, 2 * b) + 1
    ELSE IF a < b THEN ExpOf(2 * a, b) - 1
    ELSE 0

\* significand + 1; a carry out of the top limb gives 2^52, one exponent up
RoundUp(x) ==
    IF x.s0 + 1 < Limb THEN [x EXCEPT !.s0 = @ + 1]
    ELSE IF x.s1 + 1 < Limb THEN [x EXCEPT !.s0 = 0, !.s1 = @ + 1]
    ELSE IF x.s2 + 1 < Pow2(TopBits)
    THEN [x EXCEPT !.s0 = 0, !.s1 = 0, !.s2 = @ + 1]
    ELSE [s2 |-> Pow2(TopBits - 1), s1 |-> 0, s0 |-> 0, e |-> x.e + 1]

\* round to nearest, ties to even: half tells whether the first discarded
\* bit is 1, above whether anything nonzero follows it
float_round(x, half, above) ==
    IF half /\ (above \/ x.s0 % 2 = 1) THEN RoundUp(x) ELSE x

\* a / b for positive integers a, b (lines 137-138): the quotient by long
\* division, one limb at a time, rounded on the remainder
float_div(a, b) ==
    LET j == ExpOf(a, b)
        num == IF j < 0 THEN a * Pow2(0 - j) ELSE a
        den == IF j > 0 THEN b * Pow2(j) ELSE b
        n2 == num * Pow2(TopBits - 1)
        n1 == (n2 % den) * Limb
        n0 == (n1 % den) * Limb
        rem == n0 % den
    IN float_round([s2 |-> n2 \div den, s1 |-> n1 \div den, s0 |-> n0 \div den,
                    e |-> j - (Precision - 1)],
                   2 * rem >= den, 2 * rem # den /\ rem # 0)

\* n * x for a positive integer n and a float x (lines 143-144): the exact
\* product limb by limb, then the d extra low bits are rounded away
float_mul(n, x) ==
    LET p0 == n * x.s0
        p1 == n * x.s1 + p0 \div Limb
        p2 == n * x.s2 + p1 \div Limb
        o0 == p0 % Limb
        o1 == p1 % Limb
        d == BitLen(p2) - TopBits
        D == Pow2(d)
        up == Limb \div D
        dropped == o0 % D
    IN IF d = 0 THEN [s2 |-> p2, s1 |-> o1, s0 |-> o0, e |-> x.e]
       ELSE float_round([s2 |-> p2 \div D,
                         s1 |-> (p2 % D) * up + o1 \div D,
                         s0 |-> (o1 % D) * up + o0 \div D,
                         e |-> x.e + d],
                        2 * dropped >= D, dropped % (D \div 2) # 0)

\* x < y
float_lt(x, y) ==
    \/ x.e < y.e
    \/ x.e = y.e /\ x.s2 < y.s2
    \/ x.e = y.e /\ x.s2 = y.s2 /\ x.s1 < y.s1
    \/ x.e = y.e /\ x.s2 = y.s2 /\ x.s1 = y.s1 /\ x.s0 < y.s0

\* min(x, y) (line 141): the first argument unless the second is smaller
float_min(x, y) == IF float_lt(y, x) THEN y ELSE x

\* int(x) (lines 143-144): truncation toward zero, the significand shifted
\* right by k = -e bits
float_int(x) ==
    LET k == 0 - x.e
    IN IF k >= Precision THEN 0
       ELSE IF k >= 2 * LimbBits THEN x.s2 \div Pow2(k - 2 * LimbBits)
       ELSE IF k >= LimbBits
       THEN x.s2 * Pow2(2 * LimbBits - k) + x.s1 \div Pow2(k - LimbBits)
       ELSE x.s2 * Pow2(2 * LimbBits - k) + x.s1 * Pow2(LimbBits - k)
            + x.s0 \div Pow2(k)

\* lines 133-147
calculate_scaled_size(original, target) ==
    LET original_width == original[1]
        original_height == original[2]
        target_width == target[1]
        target_height == target[2]
        width_ratio == float_div(target_width, original_width)
        height_ratio == float_div(target_height, original_height)
        scale_ratio == float_min(width_ratio, height_ratio)
        scaled_width == float_int(float_mul(original_width, scale_ratio))
        scaled_height == float_int(float_mul(original_height, scale_ratio))
    IN <<scaled_width, scaled_height>>

ScaleIdle ==
    /\ original_size = <<1, 1>>
    /\ target_size = <<1, 1>>
    /\ scaled_size = <<>>

SlideIdle ==
    /\ images = <<>>
    /\ undecodable = {}
    /\ bLoop = FALSE
    /\ shown_indices = {}
    /\ current_image_index = NoIndex
    /\ current_image = 0
    /\ canvas = 0
    /\ timers = 0
    /\ pc = "exited"
    /\ exit_status = 0
    /\ stdout = <<>>
    /\ selections = 0
    /\ renders = <<>>
    /\ branch = "none"

\* ---- the slideshow -----------------------------------------------------

\* State of __init__ at line 56: fields set, image set loaded.
Init ==
    /\ \E n \in 0 .. MaxN : images = [k \in 1 .. n |-> k]
    /\ undecodable \in SUBSET {images[k] : k \in 1 .. Len(images)}
    /\ bLoop \in BOOLEAN
    /\ shown_indices = {}
    /\ current_image_index = NoIndex
    /\ current_image = 0
    /\ canvas = 0
    /\ timers = 0
    /\ pc = "init"
    /\ exit_status = -1
    /\ stdout = <<>>
    /\ selections = 0
    /\ renders = [k \in 1 .. Len(images) |-> 0]
    /\ branch = "none"
    /\ ScaleIdle

\* line 56: the first selection, made from __init__
FirstShow ==
    /\ pc = "init"
    /\ show_next_image(timers)
    /\ UNCHANGED scaleVars

\* a pending one-shot timer fires in the mainloop (line 57, armed at 130)
TimerFire ==
    /\ pc = "mainloop"
    /\ timers > 0
    /\ bLoop => selections < MaxSelections
    /\ show_next_image(timers - 1)
    /\ UNCHANGED scaleVars

Next == FirstShow \/ TimerFire

Spec == Init /\ [][Next]_vars

\* Every armed timer eventually fires; the constructor runs line 56.
LiveSpec == Spec /\ WF_vars(FirstShow) /\ WF_vars(TimerFire)

\* ---- calculate_scaled_size on its own ----------------------------------
Dims == 1 .. MaxDim
Targets == (1 .. MaxTarget) \cup {SIZE}

InitScale ==
    /\ SlideIdle
    /\ original_size \in Dims \X Dims
    /\ target_size \in Targets \X Targets
    /\ scaled_size = <<>>

\* the call at line 102
Scale ==
    /\ scaled_size = <<>>
    /\ scaled_size' = calculate_scaled_size(original_size, target_size)
    /\ UNCHANGED <<original_size, target_size>>
    /\ UNCHANGED slideVars

NextScale == Scale

SpecScale == InitScale /\ [][NextScale]_vars

\* ---- properties of the slideshow ---------------------------------------
N == Len(images)
Indices == 0 .. N - 1
Complete ==
    /\ pc = "exited"
    /\ exit_status = 0
    /\ stdout # <<>>
    /\ stdout[Len(stdout)] = Line("DONE!", 0)
Failed ==
    /\ pc = "exited"
    /\ Len(stdout) >= 2
    /\ stdout[Len(stdout) - 1] = Line("Error loading image", 0)
Selects == selections' # selections

\* C1: with looping disabled and N >= 1 decodable images, each selection
\* picks an index not yet in the shown-set; no image is rendered twice; and
\* when the process terminates as complete every image has been rendered
\* exactly once, every index is in the shown-set, and N images were chosen.
C1_EachImageOnce ==
    /\ [](~bLoop /\ N >= 1 /\ undecodable = {} =>
            /\ \A k \in 1 .. N : renders[k] <= 1
            /\ \A i \in Indices : i \in shown_indices <=> renders[images[i + 1]] = 1
            /\ Complete => /\ \A k \in 1 .. N : renders[k] = 1
                           /\ shown_indices = Indices
                           /\ selections = N + 1)
    /\ [][~bLoop /\ N >= 1 /\ undecodable = {} /\ Selects =>
            \/ /\ current_image_index' \notin shown_indices
               /\ shown_indices' = shown_indices \cup {current_image_index'}
               /\ renders' = [renders EXCEPT ![images[current_image_index' + 1]] = @ + 1]
               /\ pc' = "mainloop"
            \/ /\ shown_indices = Indices
               /\ Complete'
               /\ UNCHANGED <<shown_indices, renders>>]_vars
C1_Witness ==
    /\ ~bLoop /\ N = MaxN /\ undecodable = {} /\ Complete
    /\ \A k \in 1 .. N : renders[k] = 1

\* C2: every element of the shown-set is a valid index 0..N-1 and the
\* shown-set has at most N elements, for every N and either loop setting.
C2_ShownValid ==
    /\ shown_indices \subseteq Indices
    /\ Cardinality(shown_indices) <= N
C2_Witness ==
    /\ bLoop /\ N = MaxN /\ shown_indices = Indices /\ selections > N

\* C3: with looping enabled and N >= 1, a selection that starts with all N
\* indices shown ends with the shown-set holding exactly the index just
\* selected, and each of the N indices is a possible outcome.
C3_LoopReset ==
    /\ [](bLoop /\ N >= 1 /\ Cardinality(shown_indices) = N /\ ENABLED TimerFire =>
            \A i \in Indices :
                ENABLED (TimerFire /\ current_image_index' = i
                                   /\ shown_indices' = {i}))
    /\ [][bLoop /\ N >= 1 /\ Cardinality(shown_indices) = N /\ Selects =>
            /\ branch' = "reset"
            /\ current_image_index' \in Indices
            /\ shown_indices' = {current_image_index'}
            /\ Cardinality(shown_indices') = 1]_vars
C3_Witness ==
    /\ bLoop /\ N = MaxN /\ branch = "reset"
    /\ shown_indices = {current_image_index}
    /\ selections = N + 1

\* C4: a selection terminates the process as complete (loop off) or clears
\* the shown-set (loop on) exactly when it starts with N indices shown; one
\* that starts with fewer than N neither completes nor removes an index.
C4_ExhaustedIffFull ==
    [][Selects =>
        /\ (Complete' \/ branch' = "reset") <=> Cardinality(shown_indices) = N
        /\ Complete' <=> (Cardinality(shown_indices) = N /\ ~bLoop)
        /\ branch' = "reset" <=> (Cardinality(shown_indices) = N /\ bLoop)
        /\ branch' = "reset" => shown_indices' \subseteq {current_image_index'}
        /\ Cardinality(shown_indices) < N =>
              /\ ~Complete'
              /\ branch' = "pick"
              /\ shown_indices \subseteq shown_indices']_vars
C4_Witness ==
    /\ N = MaxN /\ branch = "pick" /\ Cardinality(shown_indices) = 2
    /\ pc = "mainloop"

\* C5: when load_image raises, the process ends at once with status 0 after
\* printing the error and the file name; the canvas and the render counts are
\* unchanged, no timer is pending, and no step follows, be it the first
\* selection or a later tick.
C5_FailureExits ==
    /\ [][Selects /\ branch' # "done"
            /\ current_image_index' \in shown_indices'
            /\ images[current_image_index' + 1] \in undecodable =>
            /\ pc' = "exited"
            /\ exit_status' = 0
            /\ stdout' = stdout \o <<Line("Error loading image", 0),
                                     Line("name =", images[current_image_index' + 1])>>
            /\ canvas' = canvas
            /\ renders' = renders
            /\ current_image' = 0
            /\ timers' = 0]_vars
    /\ [][pc # "exited"]_vars
    /\ [](Failed => exit_status = 0 /\ timers = 0 /\ ~ENABLED Next)
C5_Witness ==
    /\ Failed /\ selections = 2 /\ canvas # 0 /\ exit_status = 0
    /\ canvas # images[current_image_index + 1]

C9_OneTimer ==
    /\ [](timers <= 1 /\ (pc = "exited" => timers = 0)
                      /\ (pc = "mainloop" => timers = 1))
    /\ [][/\ selections' = selections + 1
          /\ renders' # renders => timers' = 1
          /\ renders' = renders => timers' = 0]_vars
C9_Witness ==
    /\ pc = "mainloop" /\ timers = 1 /\ selections = 2 /\ canvas # 0

\* C10: with looping disabled and every armed timer eventually firing, the
\* process eventually terminates, always with status 0; when nothing fails to
\* decode it terminates on selection N+1.
C10_Terminates ==
    /\ ~bLoop => <>(pc = "exited")
    /\ [](~bLoop /\ pc = "exited" => exit_status = 0 /\ (Complete \/ Failed))
    /\ [](~bLoop /\ pc = "exited" /\ undecodable = {} =>
            Complete /\ selections = N + 1)
C10_Witness ==
    /\ ~bLoop /\ N = MaxN /\ undecodable = {} /\ Complete
    /\ selections = N + 1 /\ timers = 0

\* C8: the scaled size (w,h) fits the target box, w <= Tw and h <= Th, at
\* least one of w = Tw, h = Th holds, (w,h) is the truncation of the size
\* scaled by r = min(Tw/W, Th/H), and |w*H - h*W| < max(W,H).
C8_ScaledSizeFits ==
    scaled_size # <<>> =>
        LET W == original_size[1]
            H == original_size[2]
            Tw == target_size[1]
            Th == target_size[2]
            w == scaled_size[1]
            h == scaled_size[2]
            d == w * H - h * W
        IN /\ w <= Tw /\ h <= Th
           /\ w = Tw \/ h = Th
           /\ IF Tw * H <= Th * W
              THEN w = Tw /\ h = (H * Tw) \div W
              ELSE h = Th /\ w = (W * Th) \div H
           /\ d < (IF W > H THEN W ELSE H)
           /\ 0 - d < (IF W > H THEN W ELSE H)

====
